---- MODULE Spec2Model ----
(***************************************************************************)
(* Fare settlement of the campus shuttle system (src/system.py): the       *)
(* tables of shuttle.db, the tap handler process_rider_tap, the shift-end  *)
(* settlement handle_end_of_shift and the wallet operations that write the *)
(* same rows.                                                              *)
(*                                                                         *)
(* Money is kept in thousandths of a dollar (0.50 is 500), distances in    *)
(* tenths of a kilometre (2.1 is 21).  A table is the sequence of its      *)
(* rows; the AUTOINCREMENT id of a row is its index.  Timestamps and the   *)
(* password hash are written but never read by the settlement code and     *)
(* are left out of the rows.                                               *)
(***************************************************************************)
EXTENDS Integers, Sequences, FiniteSets, TLC

VARIABLES user, shuttle, route, route_stop, active_trip, transaction_log, out, session

(* out is the last fare line the settlement code printed: "Fare" (tap-off), *)
(* "ChargedMaxFare" (forgotten tap-off) or "AutoCompleted" (end of shift),   *)
(* with the amount it announced, or "Error" when the last line is the one    *)
(* an except clause printed.  Nothing else that is printed is kept.          *)

db == <<user, shuttle, route, route_stop, active_trip, transaction_log>>
vars == <<user, shuttle, route, route_stop, active_trip, transaction_log, out, session>>

(* session[s] is what driver session s, a process of its own with its own  *)
(* connection to shuttle.db, holds of a handler it has entered and not yet  *)
(* left: the name of the handler and what its SELECTs have returned.  A     *)
(* handler run from its first statement to its last in one step leaves it   *)
(* as it is.                                                                *)

----------------------------------------------------------------------------
(* Bounds of the model.                                                    *)

MaxTrips == 2
MaxLedger == 2

(* The driver sessions open at the same time. *)
Sessions == {1, 2}

(* Inputs typed at the prompts. *)
TapUsernames == {"rider1", "rider2", "nobody"}
TapStops == {1, 3, 5}
FundUsernames == {"rider2"}
AdjustUsernames == {"rider2", "nobody"}
RegisterInputs == {<<"rider2", "rider2@campus.edu">>, <<"rider9", "rider1@campus.edu">>}
FundAmounts == {-500, 1000}
AdjustAmounts == {-500}
RouteInputs == {<<"Express", 1000, 300>>, <<"Campus Loop", 1000, 300>>}
RouteStopInputs == {<<2, 1, 1, 0>>}
ShuttleInputs == {<<"Shuttle #2", 20>>}

----------------------------------------------------------------------------
(* Enumerations.                                                           *)

UserRole == [RIDER |-> "Rider", DRIVER |-> "Driver", ADMIN |-> "Admin"]
TripStatus == [ACTIVE |-> "Active", COMPLETED |-> "Completed",
               AUTO_COMPLETED |-> "AutoCompleted"]
TransactionType == [RIDE_PAYMENT |-> "RidePayment", ADD_FUNDS |-> "AddFunds",
                    ADMIN_ADJUSTMENT |-> "AdminAdjustment"]

(* related_trip_id of an entry that names no trip (SQL NULL). *)
NULL == 0

----------------------------------------------------------------------------
(* The seeded database.                                                    *)

(* A session that is in no handler. *)
Idle == [op |-> "idle", ws |-> << >>, trips |-> {}]

seed_data ==
    /\ user = << [username |-> "admin", email |-> "admin@campus.edu",
                  role |-> UserRole.ADMIN, wallet_balance |-> 0],
                 [username |-> "driver1", email |-> "driver1@campus.edu",
                  role |-> UserRole.DRIVER, wallet_balance |-> 0],
                 [username |-> "rider1", email |-> "rider1@campus.edu",
                  role |-> UserRole.RIDER, wallet_balance |-> 10000] >>
    /\ route = << [name |-> "Campus Loop", base_fare |-> 500, price_per_km |-> 250] >>
    /\ route_stop = << [route_id |-> 1, stop_id |-> 1, stop_order |-> 1, distance_from_start |-> 0],
                       [route_id |-> 1, stop_id |-> 2, stop_order |-> 2, distance_from_start |-> 8],
                       [route_id |-> 1, stop_id |-> 3, stop_order |-> 3, distance_from_start |-> 15],
                       [route_id |-> 1, stop_id |-> 4, stop_order |-> 4, distance_from_start |-> 21] >>
    /\ shuttle = << [name |-> "Shuttle #1", capacity |-> 15] >>
    /\ active_trip = << >>
    /\ transaction_log = << >>

Init ==
    /\ seed_data
    /\ out = [msg |-> "None", fare |-> 0]
    /\ session = [s \in Sessions |-> Idle]

----------------------------------------------------------------------------
(* Account and wallet operations.                                          *)

(* UserByName falling back on the rider rows when no row has the username. *)
UserByName_OrAnyRider(username) ==
    IF \E i \in DOMAIN user : user[i].username = username
    THEN {i \in DOMAIN user : user[i].username = username}
    ELSE {i \in DOMAIN user : user[i].role = UserRole.RIDER}

(* The rows of user with this username (username is UNIQUE). *)
UserByName(username) == {i \in DOMAIN user : user[i].username = username}

(* The INSERT fails on a username or an email already in the table. *)
register_user(username, email) ==
    /\ IF \E i \in DOMAIN user : user[i].username = username \/ user[i].email = email
       THEN UNCHANGED user
       ELSE user' = Append(user, [username |-> username, email |-> email,
                                  role |-> UserRole.RIDER, wallet_balance |-> 0])
    /\ UNCHANGED <<shuttle, route, route_stop, active_trip, transaction_log, out>>
    /\ UNCHANGED session

(* add_funds is reached from rider_menu, so the logged-in row has role Rider. *)
add_funds(uid, amount) ==
    /\ uid \in DOMAIN user
    /\ user[uid].role = UserRole.RIDER
    /\ IF amount <= 0
       THEN UNCHANGED <<user, transaction_log>>
       ELSE /\ Len(transaction_log) < MaxLedger
            /\ user' = [user EXCEPT ![uid].wallet_balance = @ + amount]
            /\ transaction_log' = Append(transaction_log,
                   [rider_id |-> uid, amount |-> amount,
                    type |-> TransactionType.ADD_FUNDS, related_trip_id |-> NULL])
    /\ UNCHANGED <<shuttle, route, route_stop, active_trip, out>>
    /\ UNCHANGED session

adjust_user_balance(username, amount) ==
    /\ IF UserByName(username) = {}
       THEN UNCHANGED <<user, transaction_log>>
       ELSE \E uid \in UserByName(username) :
            /\ Len(transaction_log) < MaxLedger
            /\ user' = [user EXCEPT ![uid].wallet_balance = @ + amount]
            /\ transaction_log' = Append(transaction_log,
                   [rider_id |-> uid, amount |-> amount,
                    type |-> TransactionType.ADMIN_ADJUSTMENT, related_trip_id |-> NULL])
    /\ UNCHANGED <<shuttle, route, route_stop, active_trip, out>>
    /\ UNCHANGED session

----------------------------------------------------------------------------
(* Administration of the topology.                                         *)

(* The INSERT is unconditional.  The model enters each ShuttleInputs name   *)
(* once, which bounds the table.                                           *)
create_shuttle(name, capacity) ==
    /\ \A s \in DOMAIN shuttle : shuttle[s].name # name
    /\ shuttle' = Append(shuttle, [name |-> name, capacity |-> capacity])
    /\ UNCHANGED <<user, route, route_stop, active_trip, transaction_log, out>>
    /\ UNCHANGED session

(* The INSERT fails on a route name already in the table. *)
create_route(name, base_fare, price_per_km) ==
    /\ IF \E r \in DOMAIN route : route[r].name = name
       THEN UNCHANGED route
       ELSE route' = Append(route, [name |-> name, base_fare |-> base_fare,
                                    price_per_km |-> price_per_km])
    /\ UNCHANGED <<user, shuttle, route_stop, active_trip, transaction_log, out>>
    /\ UNCHANGED session

(* No foreign key is enforced: the row is inserted whatever the ids are.    *)
(* The model enters each RouteStopInputs pair of route and stop once,      *)
(* which bounds the table.                                                 *)
add_stop_to_route(route_id, stop_id, stop_order, distance_from_start) ==
    /\ \A rs \in DOMAIN route_stop :
          <<route_stop[rs].route_id, route_stop[rs].stop_id>> # <<route_id, stop_id>>
    /\ route_stop' = Append(route_stop,
           [route_id |-> route_id, stop_id |-> stop_id, stop_order |-> stop_order,
            distance_from_start |-> distance_from_start])
    /\ UNCHANGED <<user, shuttle, route, active_trip, transaction_log, out>>
    /\ UNCHANGED session

----------------------------------------------------------------------------
(* Fare computation.                                                       *)

Abs(x) == IF x < 0 THEN -x ELSE x

(* round(x, 2) of a non-negative amount: to the nearest cent, a tie (5     *)
(* thousandths) going to the even cent.  On every fare the model's routes  *)
(* produce, CPython's round on the float agrees with this value.           *)
Round2(x) ==
    LET q == x \div 10
        r == x % 10
    IN IF r < 5 THEN 10 * q
       ELSE IF r > 5 THEN 10 * (q + 1)
       ELSE IF q % 2 = 0 THEN 10 * q ELSE 10 * (q + 1)

(* TapOffFare without the absolute value of the distance. *)
TapOffFare_NoAbs(route_data, tap_on_stop_data, current_stop_data) ==
    LET dist_on == tap_on_stop_data.distance_from_start
        dist_off == current_stop_data.distance_from_start
    IN Round2(route_data.base_fare + ((dist_off - dist_on) * route_data.price_per_km) \div 10)

(* price_per_km is per kilometre and the distance is in tenths. *)
TapOffFare(route_data, tap_on_stop_data, current_stop_data) ==
    LET dist_on == tap_on_stop_data.distance_from_start
        dist_off == current_stop_data.distance_from_start
        distance_traveled == Abs(dist_off - dist_on)
    IN Round2(route_data.base_fare + (distance_traveled * route_data.price_per_km) \div 10)

MaxFareOnTap(old_route_data, tap_on_stop_data, last_stop_data) ==
    LET max_dist == Abs(last_stop_data.distance_from_start
                        - tap_on_stop_data.distance_from_start)
    IN Round2(old_route_data.base_fare + (max_dist * old_route_data.price_per_km) \div 10)

MaxFareAtShiftEnd(route_data, tap_on_stop_data, last_stop_data) ==
    LET max_dist == Abs(last_stop_data.distance_from_start
                        - tap_on_stop_data.distance_from_start)
    IN Round2(route_data.base_fare + (max_dist * route_data.price_per_km) \div 10)

----------------------------------------------------------------------------
(* Queries of the tap handler.                                             *)

(* FindActiveTrip with the status of a closed trip in the WHERE clause. *)
FindActiveTrip_Completed(rider_id) ==
    {t \in DOMAIN active_trip : /\ active_trip[t].rider_id = rider_id
                                /\ active_trip[t].status = TripStatus.COMPLETED}

(* SELECT * FROM active_trip WHERE rider_id = ? AND status = 'Active' *)
FindActiveTrip(rider_id) ==
    {t \in DOMAIN active_trip : /\ active_trip[t].rider_id = rider_id
                                /\ active_trip[t].status = TripStatus.ACTIVE}

(* LastStopData with the order of the query ascending. *)
LastStopData_Ascending(route_id) ==
    LET rows == {rs \in DOMAIN route_stop : route_stop[rs].route_id = route_id}
    IN CHOOSE rs \in rows : \A o \in rows : route_stop[o].stop_order >= route_stop[rs].stop_order

(* ORDER BY stop_order DESC LIMIT 1: a row of the route with the highest   *)
(* stop_order.  Which of several rows sharing it is returned is left to    *)
(* SQLite; the rows that can share it here have the same distance.         *)
LastStopData(route_id) ==
    LET rows == {rs \in DOMAIN route_stop : route_stop[rs].route_id = route_id}
    IN CHOOSE rs \in rows : \A o \in rows : route_stop[o].stop_order <= route_stop[rs].stop_order

(* SameStop comparing with the stop of the row instead of the row's id. *)
SameStop_ByStopId(trip, current_stop_id) ==
    trip.tap_on_route_stop_id = route_stop[current_stop_id].stop_id

SameStop(trip, current_stop_id) == trip.tap_on_route_stop_id = current_stop_id

SameRoute(tap_on_stop_data, current_stop_data) ==
    tap_on_stop_data.route_id = current_stop_data.route_id

(* InsufficientFunds reading the other price column of the route. *)
InsufficientFunds_PerKm(rider, route_data) == rider.wallet_balance < route_data.price_per_km

(* InsufficientFunds refusing a balance equal to the base fare. *)
InsufficientFunds_Inclusive(rider, route_data) == rider.wallet_balance <= route_data.base_fare

InsufficientFunds(rider, route_data) == rider.wallet_balance < route_data.base_fare

(* RefreshedRider keeping the row read at the start of the handler. *)
RefreshedRider_Stale(pending_user, rider_id) == user[rider_id]

(* The rider row read again after the forced settlement, on the same        *)
(* connection: it shows the balance that settlement wrote.                  *)
RefreshedRider(pending_user, rider_id) == pending_user[rider_id]

(* The stops a driver session can stand at: the join of route_stop with    *)
(* route and stop for the chosen route.  Every stop_id of the model is a   *)
(* seeded stop, so the join with stop drops no row.                        *)
SessionStops == {rs \in DOMAIN route_stop : route_stop[rs].route_id \in DOMAIN route}

----------------------------------------------------------------------------
(* process_rider_tap.  The handler commits once, at its end; a return      *)
(* before that closes the connection and discards what it has written.     *)

(* The tap-on attempt, on the tables u, at and log the handler has written  *)
(* so far; printed is the fare line printed before it, if any.              *)
TapOn(rid, rider, route_data, cs, shuttle_id, u, at, log, printed) ==
    IF InsufficientFunds(rider, route_data)
    THEN /\ out' = printed
         /\ UNCHANGED db
    ELSE /\ Len(at) < MaxTrips
         /\ user' = u
         /\ transaction_log' = log
         /\ active_trip' = Append(at, [rider_id |-> rid, shuttle_id |-> shuttle_id,
                                       tap_on_route_stop_id |-> cs,
                                       status |-> TripStatus.ACTIVE])
         /\ out' = printed
         /\ UNCHANGED <<shuttle, route, route_stop>>

TapOff(rid, rider, t, route_data, tap_on_stop_data, current_stop_data) ==
    LET fare == TapOffFare(route_data, tap_on_stop_data, current_stop_data)
        new_balance == rider.wallet_balance - fare
    IN /\ Len(transaction_log) < MaxLedger
       /\ user' = [user EXCEPT ![rid].wallet_balance = new_balance]
       /\ transaction_log' = Append(transaction_log,
              [rider_id |-> rid, amount |-> -fare,
               type |-> TransactionType.RIDE_PAYMENT, related_trip_id |-> t])
       /\ active_trip' = [active_trip EXCEPT ![t].status = TripStatus.COMPLETED]
       /\ out' = [msg |-> "Fare", fare |-> fare]
       /\ UNCHANGED <<shuttle, route, route_stop>>

ForgotToTapOff(rid, rider, t, route_data, tap_on_stop_data, cs, shuttle_id) ==
    LET old_route_id == tap_on_stop_data.route_id
        last_stop_data == route_stop[LastStopData(old_route_id)]
        old_route_data == route[old_route_id]
        max_fare == MaxFareOnTap(old_route_data, tap_on_stop_data, last_stop_data)
        new_balance == rider.wallet_balance - max_fare
        u == [user EXCEPT ![rid].wallet_balance = new_balance]
        log == Append(transaction_log,
                      [rider_id |-> rid, amount |-> -max_fare,
                       type |-> TransactionType.RIDE_PAYMENT, related_trip_id |-> t])
        at == [active_trip EXCEPT ![t].status = TripStatus.AUTO_COMPLETED]
    IN /\ Len(transaction_log) < MaxLedger
       /\ TapOn(rid, RefreshedRider(u, rid), route_data, cs, shuttle_id, u, at, log,
                [msg |-> "ChargedMaxFare", fare |-> max_fare])

(* process_rider_tap looking for the ACTIVE trip among the trips of its shuttle. *)
process_rider_tap_OwnShuttle(rider_username, cs, shuttle_id) ==
    /\ cs \in SessionStops
    /\ shuttle_id \in DOMAIN shuttle
    /\ IF UserByName(rider_username) = {}
       THEN UNCHANGED vars
       ELSE \E rid \in UserByName(rider_username) :
            LET OnShuttle(T) == {x \in T : active_trip[x].shuttle_id = shuttle_id}
                rider == user[rid]
                current_stop_data == route_stop[cs]
                route_data == route[current_stop_data.route_id]
            IN IF OnShuttle(FindActiveTrip(rid)) = {}
               THEN TapOn(rid, rider, route_data, cs, shuttle_id,
                          user, active_trip, transaction_log, out)
               ELSE \E t \in OnShuttle(FindActiveTrip(rid)) :
                    LET tap_on_stop_data == route_stop[active_trip[t].tap_on_route_stop_id]
                    IN IF SameStop(active_trip[t], cs)
                       THEN UNCHANGED vars
                       ELSE IF SameRoute(tap_on_stop_data, current_stop_data)
                       THEN TapOff(rid, rider, t, route_data, tap_on_stop_data,
                                   current_stop_data)
                       ELSE ForgotToTapOff(rid, rider, t, route_data, tap_on_stop_data,
                                           cs, shuttle_id)
    /\ UNCHANGED session

process_rider_tap(rider_username, cs, shuttle_id) ==
    /\ cs \in SessionStops
    /\ shuttle_id \in DOMAIN shuttle
    /\ IF UserByName(rider_username) = {}
       THEN UNCHANGED vars
       ELSE \E rid \in UserByName(rider_username) :
            LET rider == user[rid]
                current_stop_data == route_stop[cs]
                route_data == route[current_stop_data.route_id]
            IN IF FindActiveTrip(rid) = {}
               THEN TapOn(rid, rider, route_data, cs, shuttle_id,
                          user, active_trip, transaction_log, out)
               ELSE \E t \in FindActiveTrip(rid) :
                    LET tap_on_stop_data == route_stop[active_trip[t].tap_on_route_stop_id]
                    IN IF SameStop(active_trip[t], cs)
                       THEN UNCHANGED vars
                       ELSE IF SameRoute(tap_on_stop_data, current_stop_data)
                       THEN TapOff(rid, rider, t, route_data, tap_on_stop_data,
                                   current_stop_data)
                       ELSE ForgotToTapOff(rid, rider, t, route_data, tap_on_stop_data,
                                           cs, shuttle_id)
    /\ UNCHANGED session

----------------------------------------------------------------------------
(* handle_end_of_shift: the ACTIVE trips of the shuttle are read once, each *)
(* is settled in turn on the same connection, and one commit follows the    *)
(* loop.  The loop is entered while the ledger has room for an entry and   *)
(* then runs to its end, so that the ledger ends at most one entry per     *)
(* rider beyond MaxLedger.                                                 *)

(* ActiveTripsOnShuttle without the test of the shuttle. *)
ActiveTripsOnShuttle_AnyShuttle(shuttle_id) ==
    {t \in DOMAIN active_trip : active_trip[t].status = TripStatus.ACTIVE}

ActiveTripsOnShuttle(shuttle_id) ==
    {t \in DOMAIN active_trip : /\ active_trip[t].shuttle_id = shuttle_id
                                /\ active_trip[t].status = TripStatus.ACTIVE}

(* One pass of the loop body on the pending tables S for the trip row t. *)
SettleTrip(S, t) ==
    LET trip == active_trip[t]
        rider == S.user[trip.rider_id]
        tap_on_stop_data == route_stop[trip.tap_on_route_stop_id]
        route_id == tap_on_stop_data.route_id
        route_data == route[route_id]
        last_stop_data == route_stop[LastStopData(route_id)]
        max_fare == MaxFareAtShiftEnd(route_data, tap_on_stop_data, last_stop_data)
        new_balance == rider.wallet_balance - max_fare
    IN [out |-> [msg |-> "AutoCompleted", fare |-> max_fare],
        user |-> [S.user EXCEPT ![trip.rider_id].wallet_balance = new_balance],
        transaction_log |-> Append(S.transaction_log,
              [rider_id |-> trip.rider_id, amount |-> -max_fare,
               type |-> TransactionType.RIDE_PAYMENT, related_trip_id |-> t]),
        active_trip |-> [S.active_trip EXCEPT ![t].status = TripStatus.AUTO_COMPLETED]]

(* SettleTrips leaving the loop after its first pass. *)
SettleTrips_FirstOnly(S, trips) ==
    IF trips = {} THEN S
    ELSE SettleTrip(S, CHOOSE x \in trips : \A y \in trips : x <= y)

RECURSIVE SettleTrips(_, _)
SettleTrips(S, trips) ==
    IF trips = {} THEN S
    ELSE LET t == CHOOSE x \in trips : \A y \in trips : x <= y
         IN SettleTrips(SettleTrip(S, t), trips \ {t})

handle_end_of_shift(shuttle_id) ==
    /\ shuttle_id \in DOMAIN shuttle
    /\ IF ActiveTripsOnShuttle(shuttle_id) = {}
       THEN UNCHANGED vars
       ELSE /\ Len(transaction_log) < MaxLedger
            /\ LET S == SettleTrips([out |-> out, user |-> user, transaction_log |-> transaction_log,
                                     active_trip |-> active_trip],
                                    ActiveTripsOnShuttle(shuttle_id))
               IN /\ user' = S.user
                  /\ transaction_log' = S.transaction_log
                  /\ active_trip' = S.active_trip
                  /\ out' = S.out
            /\ UNCHANGED <<shuttle, route, route_stop>>
    /\ UNCHANGED session

----------------------------------------------------------------------------
(* The operations run one at a time, each to its commit or its return.     *)

Next ==
    \/ \E in \in RegisterInputs : register_user(in[1], in[2])
    \/ \E uid \in DOMAIN user, amount \in FundAmounts :
          user[uid].username \in FundUsernames /\ add_funds(uid, amount)
    \/ \E username \in AdjustUsernames, amount \in AdjustAmounts :
          adjust_user_balance(username, amount)
    \/ \E in \in ShuttleInputs : create_shuttle(in[1], in[2])
    \/ \E in \in RouteInputs : create_route(in[1], in[2], in[3])
    \/ \E in \in RouteStopInputs : add_stop_to_route(in[1], in[2], in[3], in[4])
    \/ \E username \in TapUsernames, cs \in TapStops, shuttle_id \in DOMAIN shuttle :
          process_rider_tap(username, cs, shuttle_id)
    \/ \E shuttle_id \in DOMAIN shuttle : handle_end_of_shift(shuttle_id)

Spec == Init /\ [][Next]_vars

----------------------------------------------------------------------------
(* Failures.  A statement of a handler can raise (the database file is     *)
(* locked or cannot be written).  A handler is then the list of the        *)
(* statements that write, executed in order on its connection; what the    *)
(* connection has written is visible to the store at its commit only.      *)

(* The tables as a connection sees them. *)
Committed == [user |-> user, transaction_log |-> transaction_log, active_trip |-> active_trip]

UpdateBalance(id, wallet_balance) ==
    [stmt |-> "UPDATE user", id |-> id, wallet_balance |-> wallet_balance]
InsertLedger(rider_id, amount, related_trip_id) ==
    [stmt |-> "INSERT transaction_log",
     row |-> [rider_id |-> rider_id, amount |-> amount,
              type |-> TransactionType.RIDE_PAYMENT, related_trip_id |-> related_trip_id]]
UpdateStatus(id, status) == [stmt |-> "UPDATE active_trip", id |-> id, status |-> status]
InsertTrip(rider_id, shuttle_id, tap_on_route_stop_id) ==
    [stmt |-> "INSERT active_trip",
     row |-> [rider_id |-> rider_id, shuttle_id |-> shuttle_id,
              tap_on_route_stop_id |-> tap_on_route_stop_id, status |-> TripStatus.ACTIVE]]

(* cursor.execute of one writing statement on the connection's tables C. *)
Execute(C, w) ==
    IF w.stmt = "UPDATE user"
    THEN [C EXCEPT !.user = [@ EXCEPT ![w.id].wallet_balance = w.wallet_balance]]
    ELSE IF w.stmt = "INSERT transaction_log"
    THEN [C EXCEPT !.transaction_log = Append(@, w.row)]
    ELSE IF w.stmt = "UPDATE active_trip"
    THEN [C EXCEPT !.active_trip = [@ EXCEPT ![w.id].status = w.status]]
    ELSE [C EXCEPT !.active_trip = Append(@, w.row)]

(* The statements ws executed in order on the connection's tables C. *)
ExecuteAll(C, ws) ==
    LET after[i \in 0..Len(ws)] == IF i = 0 THEN C ELSE Execute(after[i - 1], ws[i])
    IN after[Len(ws)]

(* The writing statements process_rider_tap executes for rider row rid at   *)
(* route-stop cs, in order, when none of them raises.                       *)
TapWrites(rid, cs, shuttle_id) ==
    LET rider == user[rid]
        current_stop_data == route_stop[cs]
        route_data == route[current_stop_data.route_id]
    IN IF FindActiveTrip(rid) = {}
       THEN IF InsufficientFunds(rider, route_data)
            THEN << >>
            ELSE << InsertTrip(rid, shuttle_id, cs) >>
       ELSE LET t == CHOOSE x \in FindActiveTrip(rid) : TRUE
                tap_on_stop_data == route_stop[active_trip[t].tap_on_route_stop_id]
            IN IF SameStop(active_trip[t], cs)
               THEN << >>
               ELSE IF SameRoute(tap_on_stop_data, current_stop_data)
               THEN LET fare == TapOffFare(route_data, tap_on_stop_data, current_stop_data)
                    IN << UpdateBalance(rid, rider.wallet_balance - fare),
                          InsertLedger(rid, -fare, t),
                          UpdateStatus(t, TripStatus.COMPLETED) >>
               ELSE LET old_route_id == tap_on_stop_data.route_id
                        last_stop_data == route_stop[LastStopData(old_route_id)]
                        max_fare == MaxFareOnTap(route[old_route_id], tap_on_stop_data,
                                                 last_stop_data)
                        new_balance == rider.wallet_balance - max_fare
                        settled == << UpdateBalance(rid, new_balance),
                                      InsertLedger(rid, -max_fare, t),
                                      UpdateStatus(t, TripStatus.AUTO_COMPLETED) >>
                    IN IF InsufficientFunds([rider EXCEPT !.wallet_balance = new_balance],
                                            route_data)
                       THEN settled
                       ELSE Append(settled, InsertTrip(rid, shuttle_id, cs))

(* A rollback that leaves the store what the connection has written. *)
Rollback_KeepsPending(committed, pending) == pending

(* except Exception: conn.rollback(), then conn.close(): what the store    *)
(* keeps of the tables pending on the connection.                          *)
Rollback(committed, pending) == committed

(* The number of writing statements a handler can have executed when one   *)
(* of its statements raises.                                               *)
FailPoints == 0..4

(* process_rider_tap when the statement after its first k writes raises:   *)
(* a SELECT, the next write, or the commit when all writes are done.       *)
process_rider_tap_failing(rider_username, cs, shuttle_id, k) ==
    /\ cs \in SessionStops
    /\ shuttle_id \in DOMAIN shuttle
    /\ LET ws == IF UserByName(rider_username) = {} THEN << >>
                 ELSE TapWrites(CHOOSE rid \in UserByName(rider_username) : TRUE,
                                cs, shuttle_id)
       IN /\ k <= Len(ws)
          /\ LET kept == Rollback(Committed, ExecuteAll(Committed, SubSeq(ws, 1, k)))
             IN /\ user' = kept.user
                /\ transaction_log' = kept.transaction_log
                /\ active_trip' = kept.active_trip
    /\ out' = [msg |-> "Error", fare |-> 0]
    /\ UNCHANGED <<shuttle, route, route_stop>>
    /\ UNCHANGED session

(* The writing statements of one pass of the loop of handle_end_of_shift   *)
(* for the fetched trip row t, the rider being read on the connection.     *)
TripWrites(C, t) ==
    LET trip == active_trip[t]
        rider == C.user[trip.rider_id]
        tap_on_stop_data == route_stop[trip.tap_on_route_stop_id]
        route_id == tap_on_stop_data.route_id
        last_stop_data == route_stop[LastStopData(route_id)]
        max_fare == MaxFareAtShiftEnd(route[route_id], tap_on_stop_data, last_stop_data)
    IN << UpdateBalance(trip.rider_id, rider.wallet_balance - max_fare),
          InsertLedger(trip.rider_id, -max_fare, t),
          UpdateStatus(t, TripStatus.AUTO_COMPLETED) >>

(* The loop when the pass of trip t raises after fail[t] of its three      *)
(* writes (3: it does not raise), the rows being visited in the order of   *)
(* their ids.  The except clause of the pass prints the error and the loop *)
(* goes on, on the same connection.                                        *)
SettleTripsFailing(C, trips, fail) ==
    LET nth(i) == CHOOSE x \in trips : Cardinality({y \in trips : y < x}) = i - 1
        after[i \in 0..Cardinality(trips)] ==
            IF i = 0 THEN C
            ELSE ExecuteAll(after[i - 1],
                            SubSeq(TripWrites(after[i - 1], nth(i)), 1, fail[nth(i)]))
    IN after[Cardinality(trips)]

(* The sum of the amounts of the ledger entries of rider row rid. *)
RECURSIVE SumAmounts(_, _)
SumAmounts(log, rid) ==
    IF log = << >> THEN 0
    ELSE (IF Head(log).rider_id = rid THEN Head(log).amount ELSE 0) + SumAmounts(Tail(log), rid)

(* No balance has moved without its ledger entry: every balance is what   *)
(* seed_data gave the row plus the amounts of the row's entries.           *)
BalancesInStep ==
    \A rid \in DOMAIN user :
        user[rid].wallet_balance =
            (IF user[rid].username = "rider1" THEN 10000 ELSE 0)
              + SumAmounts(transaction_log, rid)

(* A commit whose connection keeps nothing of what it has written. *)
Commit_Discards(committed, pending) == committed

(* conn.commit(): the tables pending on the connection become the store's. *)
Commit(committed, pending) == pending

(* handle_end_of_shift when at least one pass of its loop raises.  The    *)
(* model follows such a call from the states where no earlier one has      *)
(* left a debit without its entry, which bounds the balances.              *)
handle_end_of_shift_failing(shuttle_id, fail) ==
    /\ BalancesInStep
    /\ shuttle_id \in DOMAIN shuttle
    /\ ActiveTripsOnShuttle(shuttle_id) # {}
    /\ fail \in [ActiveTripsOnShuttle(shuttle_id) -> 0..3]
    /\ \E t \in DOMAIN fail : fail[t] < 3
    /\ Len(transaction_log) < MaxLedger
    /\ LET trips == ActiveTripsOnShuttle(shuttle_id)
           kept == Commit(Committed, SettleTripsFailing(Committed, trips, fail))
           last == CHOOSE x \in trips : \A y \in trips : y <= x
       IN /\ user' = kept.user
          /\ transaction_log' = kept.transaction_log
          /\ active_trip' = kept.active_trip
          /\ out' = IF fail[last] < 3
                    THEN [msg |-> "Error", fare |-> 0]
                    ELSE [msg |-> "AutoCompleted",
                          fare |-> -kept.transaction_log[Len(kept.transaction_log)].amount]
    /\ UNCHANGED <<shuttle, route, route_stop>>
    /\ UNCHANGED session

(* The route-stops the driver sessions of this specification stand at:    *)
(* the first stop of Campus Loop and the stop of Express.                  *)
FailureStops == {1, 5}

(* The operations run one at a time, and a tap or an end of shift may meet *)
(* a statement that raises.  The riders tap on the seeded shuttle.         *)
NextFailures ==
    \/ register_user("rider2", "rider2@campus.edu")
    \/ \E uid \in DOMAIN user :
          user[uid].username \in FundUsernames /\ add_funds(uid, 1000)
    \/ create_route("Express", 1000, 300)
    \/ \E in \in RouteStopInputs : add_stop_to_route(in[1], in[2], in[3], in[4])
    \/ \E username \in {"rider1", "rider2"}, cs \in FailureStops :
          process_rider_tap(username, cs, 1)
    \/ handle_end_of_shift(1)
    \/ \E username \in {"rider1", "rider2"}, cs \in FailureStops, k \in FailPoints :
          process_rider_tap_failing(username, cs, 1, k)
    \/ \E fail \in [ActiveTripsOnShuttle(1) -> 0..3] : handle_end_of_shift_failing(1, fail)

SpecFailures == Init /\ [][NextFailures]_vars

----------------------------------------------------------------------------
(* Overlapping sessions.  Each driver session is a process with its own    *)
(* connection.  A handler's SELECTs take no lock that outlives them, so    *)
(* another session can commit between a handler's reads and its first      *)
(* write; from its first write to its commit a handler holds the write     *)
(* lock of the database file, and no other session writes.  A handler is   *)
(* therefore two steps: its reads, then its writes and its commit.         *)

(* The tap returns at the refusal that follows a forced settlement: its    *)
(* three writes are never committed.                                       *)
ReturnsBeforeCommit(ws) ==
    /\ Len(ws) = 3
    /\ ws[3].status = TripStatus.AUTO_COMPLETED

(* The fare line a tap that executes ws prints, or the line before it. *)
TapPrinted(ws) ==
    IF Len(ws) >= 3
    THEN [msg |-> IF ws[3].status = TripStatus.COMPLETED THEN "Fare" ELSE "ChargedMaxFare",
          fare |-> -ws[2].row.amount]
    ELSE out

(* process_rider_tap up to its first write: the rider row and the ACTIVE   *)
(* trip are read, and the statements to execute follow from them.          *)
process_rider_tap_reads(s, rider_username, cs, shuttle_id) ==
    /\ session[s] = Idle
    /\ cs \in SessionStops
    /\ shuttle_id \in DOMAIN shuttle
    /\ \E rid \in UserByName(rider_username) :
          session' = [session EXCEPT ![s] = [op |-> "process_rider_tap",
                                             ws |-> TapWrites(rid, cs, shuttle_id),
                                             trips |-> {}]]
    /\ UNCHANGED <<db, out>>

(* process_rider_tap from its first write to its commit or its return. *)
process_rider_tap_writes(s) ==
    /\ session[s].op = "process_rider_tap"
    /\ LET ws == session[s].ws
           kept == IF ReturnsBeforeCommit(ws) THEN Committed
                   ELSE Commit(Committed, ExecuteAll(Committed, ws))
       IN /\ Len(kept.transaction_log) <= MaxLedger
          /\ Len(kept.active_trip) <= MaxTrips
          /\ user' = kept.user
          /\ transaction_log' = kept.transaction_log
          /\ active_trip' = kept.active_trip
          /\ out' = TapPrinted(ws)
    /\ session' = [session EXCEPT ![s] = Idle]
    /\ UNCHANGED <<shuttle, route, route_stop>>

(* handle_end_of_shift up to its loop: the list of the shuttle's ACTIVE    *)
(* trips is fetched.                                                       *)
handle_end_of_shift_reads(s, shuttle_id) ==
    /\ session[s] = Idle
    /\ shuttle_id \in DOMAIN shuttle
    /\ ActiveTripsOnShuttle(shuttle_id) # {}
    /\ session' = [session EXCEPT ![s] = [op |-> "handle_end_of_shift", ws |-> << >>,
                                          trips |-> ActiveTripsOnShuttle(shuttle_id)]]
    /\ UNCHANGED <<db, out>>

(* The loop of handle_end_of_shift over the list it fetched, and its       *)
(* commit: each pass reads the rider row as it is then, and updates the    *)
(* trip row by its id whatever its status has become.                      *)
handle_end_of_shift_writes(s) ==
    /\ session[s].op = "handle_end_of_shift"
    /\ Len(transaction_log) < MaxLedger
    /\ LET trips == session[s].trips
           kept == Commit(Committed, SettleTripsFailing(Committed, trips, [t \in trips |-> 3]))
       IN /\ user' = kept.user
          /\ transaction_log' = kept.transaction_log
          /\ active_trip' = kept.active_trip
          /\ out' = [msg |-> "AutoCompleted",
                     fare |-> -kept.transaction_log[Len(kept.transaction_log)].amount]
    /\ session' = [session EXCEPT ![s] = Idle]
    /\ UNCHANGED <<shuttle, route, route_stop>>

(* Two driver sessions and the riders' own sessions, whose add_funds is    *)
(* one UPDATE relative to the balance in the table.                        *)
NextSessions ==
    \/ register_user("rider2", "rider2@campus.edu")
    \/ \E uid \in DOMAIN user : user[uid].username \in {"rider1", "rider2"} /\ add_funds(uid, 1000)
    \/ \E s \in Sessions, username \in {"rider1", "rider2"}, cs \in TapStops :
          process_rider_tap_reads(s, username, cs, 1)
    \/ \E s \in Sessions : process_rider_tap_writes(s)
    \/ \E s \in Sessions : handle_end_of_shift_reads(s, 1)
    \/ \E s \in Sessions : handle_end_of_shift_writes(s)

SpecSessions == Init /\ [][NextSessions]_vars

----------------------------------------------------------------------------
(* Vocabulary of the properties, stated on the tables alone.  A property   *)
(* of taps alone is stated on every outcome the tap has in a reachable     *)
(* state (no outcome of the tap contradicts it), so that a tap that is     *)
(* refused and changes nothing is an outcome like any other.               *)

ActiveTripsOfRider(rid) ==
    {t \in DOMAIN active_trip : active_trip[t].rider_id = rid /\ active_trip[t].status = "Active"}

(* An amount in thousandths to the nearest cent, a half going to the even cent. *)
NearestCentHalfEven(x) ==
    CHOOSE c \in {10 * (x \div 10), 10 * (x \div 10) + 10} :
        \/ 2 * Abs(x - c) < 10
        \/ 2 * Abs(x - c) = 10 /\ (c \div 10) % 2 = 0

(* An amount in thousandths to the nearest cent, a half going up. *)
NearestCentHalfUp(x) == 10 * ((x + 5) \div 10)

ExpectedFare(r, d1, d2) ==
    NearestCentHalfEven(route[r].base_fare + (route[r].price_per_km * Abs(d1 - d2)) \div 10)

(* The stops of a route that no stop of the route follows in stop_order. *)
TerminalStops(r) ==
    {rs \in DOMAIN route_stop :
        /\ route_stop[rs].route_id = r
        /\ \A o \in DOMAIN route_stop :
              route_stop[o].route_id = r => route_stop[o].stop_order <= route_stop[rs].stop_order}

RidePayment(rid, fare, t) ==
    [rider_id |-> rid, amount |-> -fare, type |-> "RidePayment", related_trip_id |-> t]

(* The ACTIVE trips of the riders whose username can be typed at a tap. *)
OpenTrips ==
    {t \in DOMAIN active_trip : /\ active_trip[t].status = "Active"
                                /\ user[active_trip[t].rider_id].username \in TapUsernames}

(* The riders without ACTIVE trip whose username can be typed at a tap. *)
IdleRiders ==
    {rid \in DOMAIN user : /\ user[rid].username \in TapUsernames
                           /\ ActiveTripsOfRider(rid) = {}}

(* The stops a tap can be made at, and the shuttles. *)
Stops == TapStops \cap SessionStops
Shuttles == DOMAIN shuttle

(* A tap of the rider of trip t at stop cs on shuttle sh. *)
TapOfTrip(t, cs, sh) ==
    process_rider_tap(user[active_trip[t].rider_id].username, cs, sh)

(* A tap of rider row rid at stop cs on shuttle sh. *)
TapOfRider(rid, cs, sh) == process_rider_tap(user[rid].username, cs, sh)

TapOnStop(t) == route_stop[active_trip[t].tap_on_route_stop_id]

RiderOf(t) == active_trip[t].rider_id

----------------------------------------------------------------------------
(* C1: run one at a time, taps and end-of-shift settlements leave every    *)
(* rider with at most one trip whose status is ACTIVE.                     *)
C1_AtMostOneActiveTrip ==
    \A rid \in DOMAIN user : Cardinality(ActiveTripsOfRider(rid)) <= 1

(* A rider who closed one trip rides on a second one. *)
C1_Witness ==
    \E t1, t2 \in DOMAIN active_trip :
        /\ active_trip[t1].rider_id = active_trip[t2].rider_id
        /\ active_trip[t1].status # "Active"
        /\ active_trip[t2].status = "Active"

(* C2: every rider's wallet_balance is the sum of the amounts of the       *)
(* rider's transaction_log entries, from the seeded database on.           *)
C2_BalanceIsLedgerSum ==
    \A rid \in DOMAIN user : user[rid].wallet_balance = SumAmounts(transaction_log, rid)

(* C3: a tap at the route-stop where the rider's ACTIVE trip was opened    *)
(* changes no table: no balance, no ledger entry, no trip, no status.      *)
C3_SameStopTapIsNoOp ==
    \A t \in OpenTrips, cs \in Stops, sh \in Shuttles :
        active_trip[t].tap_on_route_stop_id = cs
          => ~ ENABLED (TapOfTrip(t, cs, sh) /\ ~ UNCHANGED db)

(* A rider has an ACTIVE trip and the tap at its stop leaves the tables as they are. *)
C3_Witness ==
    \E t \in DOMAIN active_trip :
        /\ active_trip[t].status = "Active"
        /\ ENABLED (/\ process_rider_tap(user[active_trip[t].rider_id].username,
                                         active_trip[t].tap_on_route_stop_id,
                                         active_trip[t].shuttle_id)
                    /\ UNCHANGED vars)

(* C4: a tap at another route-stop of the route of the rider's ACTIVE trip  *)
(* debits the rider by the fare for the distance between the two stops at  *)
(* that route's pricing, appends one RidePayment entry of minus that fare  *)
(* naming the trip, sets the trip to COMPLETED and opens no trip.          *)
C4_TapOffSettles ==
    \A t \in OpenTrips, cs \in Stops, sh \in Shuttles :
        (/\ active_trip[t].tap_on_route_stop_id # cs
         /\ TapOnStop(t).route_id = route_stop[cs].route_id)
          => LET fare == ExpectedFare(route_stop[cs].route_id,
                                      route_stop[cs].distance_from_start,
                                      TapOnStop(t).distance_from_start)
             IN ~ ENABLED
                  (/\ TapOfTrip(t, cs, sh)
                   /\ ~ (/\ user' = [user EXCEPT ![RiderOf(t)].wallet_balance = @ - fare]
                         /\ transaction_log' =
                              Append(transaction_log, RidePayment(RiderOf(t), fare, t))
                         /\ active_trip' = [active_trip EXCEPT ![t].status = "Completed"]))

(* A trip is COMPLETED, paid by the last ledger entry, whose fare was announced. *)
C4_Witness ==
    /\ out.msg = "Fare"
    /\ transaction_log # << >>
    /\ LET e == transaction_log[Len(transaction_log)]
       IN /\ e.type = "RidePayment"
          /\ e.amount = -out.fare
          /\ active_trip[e.related_trip_id].status = "Completed"

(* The fare of a settlement as the claim C5 states it: a half cent goes up. *)
PinnedFare(r, d1, d2) ==
    NearestCentHalfUp(route[r].base_fare + (route[r].price_per_km * Abs(d1 - d2)) \div 10)

(* C5: every fare charged, at a tap-off, at a forced settlement on a tap   *)
(* and at the end of a shift, is base_fare + price_per_km * distance       *)
(* rounded to cents by the rule that charges 0.875 as 0.88 and 1.025 as    *)
(* 1.03.                                                                   *)
C5_FaresRoundedAsPinned ==
    [][\A t \in DOMAIN active_trip :
        /\ (active_trip[t].status = "Active" /\ active_trip'[t].status = "Completed")
             => \E cs \in Stops :
                  /\ TapOnStop(t).route_id = route_stop[cs].route_id
                  /\ \E i \in DOMAIN transaction_log' \ DOMAIN transaction_log :
                       transaction_log'[i] =
                         RidePayment(active_trip[t].rider_id,
                                     PinnedFare(route_stop[cs].route_id,
                                                route_stop[cs].distance_from_start,
                                                TapOnStop(t).distance_from_start), t)
        /\ (active_trip[t].status = "Active" /\ active_trip'[t].status = "AutoCompleted")
             => \E ls \in TerminalStops(TapOnStop(t).route_id) :
                  \E i \in DOMAIN transaction_log' \ DOMAIN transaction_log :
                       transaction_log'[i] =
                         RidePayment(active_trip[t].rider_id,
                                     PinnedFare(TapOnStop(t).route_id,
                                                route_stop[ls].distance_from_start,
                                                TapOnStop(t).distance_from_start), t)]_vars

(* C6: a tap at a stop of another route than the rider's ACTIVE trip       *)
(* announces and charges base_fare + price_per_km * |distance(terminal) -  *)
(* distance(tap-on)| at the pricing and the highest-stop_order stop of the *)
(* trip's route; what it commits is that debit with a RidePayment entry    *)
(* naming the old trip.                                                    *)
C6_ForcedFareFromOldRoute ==
    \A t \in OpenTrips, cs \in Stops, sh \in Shuttles :
        TapOnStop(t).route_id # route_stop[cs].route_id
          => \E ls \in TerminalStops(TapOnStop(t).route_id) :
               LET max_fare == ExpectedFare(TapOnStop(t).route_id,
                                            route_stop[ls].distance_from_start,
                                            TapOnStop(t).distance_from_start)
               IN ~ ENABLED
                    (/\ TapOfTrip(t, cs, sh)
                     /\ ~ (/\ out' = [msg |-> "ChargedMaxFare", fare |-> max_fare]
                           /\ \/ UNCHANGED db
                              \/ /\ user'[RiderOf(t)].wallet_balance =
                                       user[RiderOf(t)].wallet_balance - max_fare
                                 /\ transaction_log' =
                                      Append(transaction_log,
                                             RidePayment(RiderOf(t), max_fare, t))))

(* A trip opened on the seeded route was force-settled by a tap on the     *)
(* other route, and the settlement is the last entry of the ledger.        *)
C6_Witness ==
    /\ out.msg = "ChargedMaxFare"
    /\ transaction_log # << >>
    /\ LET e == transaction_log[Len(transaction_log)]
       IN /\ e.type = "RidePayment"
          /\ e.amount = -out.fare
          /\ active_trip[e.related_trip_id].status = "AutoCompleted"
          /\ TapOnStop(e.related_trip_id).route_id = 1
          /\ TapOnStop(e.related_trip_id).distance_from_start = 0

(* The balance a forced settlement of trip t leaves its rider. *)
BalanceAfterForcedSettlement(rid, t, ls) ==
    user[rid].wallet_balance
      - ExpectedFare(TapOnStop(t).route_id, route_stop[ls].distance_from_start,
                     TapOnStop(t).distance_from_start)

(* The step appends to active_trip an ACTIVE trip of rid at cs on sh. *)
OpensTrip(rid, cs, sh) ==
    /\ Len(active_trip') = Len(active_trip) + 1
    /\ active_trip'[Len(active_trip')] =
         [rider_id |-> rid, shuttle_id |-> sh, tap_on_route_stop_id |-> cs, status |-> "Active"]

(* C7: after the forced settlement the same tap opens a new ACTIVE trip at *)
(* the current stop exactly when the balance before the tap less the max   *)
(* fare is at least the base_fare of the current stop's route.             *)
C7_TapOnAgainstReducedBalance ==
    \A t \in OpenTrips, cs \in Stops, sh \in Shuttles :
        TapOnStop(t).route_id # route_stop[cs].route_id
          => \E ls \in TerminalStops(TapOnStop(t).route_id) :
               ~ ENABLED
                   (/\ TapOfTrip(t, cs, sh)
                    /\ ~ (OpensTrip(RiderOf(t), cs, sh)
                            <=> BalanceAfterForcedSettlement(RiderOf(t), t, ls)
                                  >= route[route_stop[cs].route_id].base_fare))

(* A forced settlement was followed by the new trip of the same rider. *)
C7_Witness ==
    /\ out.msg = "ChargedMaxFare"
    /\ \E t1, t2 \in DOMAIN active_trip :
         /\ t1 < t2
         /\ active_trip[t1].rider_id = active_trip[t2].rider_id
         /\ active_trip[t1].status = "AutoCompleted"
         /\ active_trip[t2].status = "Active"
         /\ TapOnStop(t1).route_id # TapOnStop(t2).route_id
         /\ transaction_log # << >>
         /\ transaction_log[Len(transaction_log)].related_trip_id = t1

(* C8: when the tap-on that follows a forced settlement is refused for     *)
(* insufficient funds, the tap still leaves the old trip AUTO_COMPLETED,   *)
(* the max fare debited and ledgered, and the rider without ACTIVE trip.   *)
C8_ForcedSettlementKeptWhenDenied ==
    \A t \in OpenTrips, cs \in Stops, sh \in Shuttles :
      \A ls \in TerminalStops(TapOnStop(t).route_id) :
        (/\ TapOnStop(t).route_id # route_stop[cs].route_id
         /\ BalanceAfterForcedSettlement(RiderOf(t), t, ls)
              < route[route_stop[cs].route_id].base_fare)
          => ~ ENABLED
                 (/\ TapOfTrip(t, cs, sh)
                  /\ ~ (/\ active_trip' = [active_trip EXCEPT ![t].status = "AutoCompleted"]
                        /\ user'[RiderOf(t)].wallet_balance =
                             BalanceAfterForcedSettlement(RiderOf(t), t, ls)
                        /\ transaction_log' =
                             Append(transaction_log,
                                    RidePayment(RiderOf(t),
                                                user[RiderOf(t)].wallet_balance
                                                  - BalanceAfterForcedSettlement(RiderOf(t), t, ls),
                                                t))))

(* C9: a tap of a rider without ACTIVE trip whose balance is below the     *)
(* base_fare of the current stop's route changes no table.                 *)
C9_InsufficientFundsRejected ==
    \A rid \in IdleRiders, cs \in Stops, sh \in Shuttles :
        user[rid].wallet_balance < route[route_stop[cs].route_id].base_fare
          => ~ ENABLED (TapOfRider(rid, cs, sh) /\ ~ UNCHANGED db)

(* A funded rider without trip is below the base fare of a stop, and the   *)
(* tap there leaves everything as it is.                                   *)
C9_Witness ==
    \E rid \in IdleRiders, cs \in Stops :
        /\ 0 < user[rid].wallet_balance
        /\ user[rid].wallet_balance < route[route_stop[cs].route_id].base_fare
        /\ ENABLED (process_rider_tap(user[rid].username, cs, 1) /\ UNCHANGED vars)

(* C10: a tap of a rider without ACTIVE trip whose balance is at least the *)
(* base_fare of the current stop's route (the equal balance included) has  *)
(* one outcome only: one ACTIVE trip of that rider, shuttle and route-stop *)
(* is appended, and balances and ledger are left alone.                    *)
C10_TapOnOpensTrip ==
    \A rid \in IdleRiders, cs \in Stops, sh \in Shuttles :
        user[rid].wallet_balance >= route[route_stop[cs].route_id].base_fare
          => ~ ENABLED (/\ TapOfRider(rid, cs, sh)
                        /\ ~ (/\ OpensTrip(rid, cs, sh)
                              /\ \A t \in DOMAIN active_trip : active_trip'[t] = active_trip[t]
                              /\ user' = user
                              /\ transaction_log' = transaction_log))

(* A rider holding exactly the base fare rides, on the second shuttle, the *)
(* balance and the ledger being what the one deposit made them.            *)
C10_Witness ==
    \E t \in DOMAIN active_trip :
        /\ active_trip[t].status = "Active"
        /\ active_trip[t].shuttle_id = 2
        /\ user[active_trip[t].rider_id].wallet_balance = route[TapOnStop(t).route_id].base_fare
        /\ Len(transaction_log) = 1

----------------------------------------------------------------------------
(* The trips that are ACTIVE on shuttle sh. *)
OpenTripsOn(sh) ==
    {t \in DOMAIN active_trip : active_trip[t].shuttle_id = sh /\ active_trip[t].status = "Active"}

(* The fare of a forced settlement of trip t, from the tables alone: the   *)
(* trip's route, its tap-on stop and a terminal stop of the route.         *)
ForcedFare(t) ==
    LET r == TapOnStop(t).route_id
        ls == CHOOSE x \in TerminalStops(r) : TRUE
    IN ExpectedFare(r, route_stop[ls].distance_from_start, TapOnStop(t).distance_from_start)

RECURSIVE SumForcedFares(_)
SumForcedFares(T) ==
    IF T = {} THEN 0
    ELSE LET t == CHOOSE x \in T : TRUE IN ForcedFare(t) + SumForcedFares(T \ {t})

(* The step settles the trips T, and only them, once each. *)
SettledOnce(T) ==
    /\ DOMAIN active_trip' = DOMAIN active_trip
    /\ \A t \in T : active_trip'[t] = [active_trip[t] EXCEPT !.status = "AutoCompleted"]
    /\ Len(transaction_log') = Len(transaction_log) + Cardinality(T)
    /\ \A i \in DOMAIN transaction_log : transaction_log'[i] = transaction_log[i]
    /\ \A t \in T :
          Cardinality({i \in DOMAIN transaction_log' \ DOMAIN transaction_log :
                          transaction_log'[i] = RidePayment(RiderOf(t), ForcedFare(t), t)}) = 1
    /\ \A rid \in DOMAIN user :
          user'[rid] = [user[rid] EXCEPT !.wallet_balance =
                           @ - SumForcedFares({t \in T : RiderOf(t) = rid})]

(* C12: handle_end_of_shift(shuttle_id), run to its end without failure,   *)
(* leaves no trip of that shuttle ACTIVE: each trip that was ACTIVE on it  *)
(* is AUTO_COMPLETED, has exactly one RidePayment entry appended for it,   *)
(* and its rider is debited once by that trip's max fare.                  *)
C12_EndOfShiftSettlesAll ==
    [][\A sh \in Shuttles :
          handle_end_of_shift(sh)
            => /\ SettledOnce(OpenTripsOn(sh))
               /\ \A t \in DOMAIN active_trip' :
                     active_trip'[t].shuttle_id = sh => active_trip'[t].status # "Active"]_vars

(* A shift ended with two trips of one shuttle settled, the last two       *)
(* entries of the ledger paying one each.                                  *)
C12_Witness ==
    /\ out.msg = "AutoCompleted"
    /\ Len(transaction_log) >= 2
    /\ LET e1 == transaction_log[Len(transaction_log) - 1]
           e2 == transaction_log[Len(transaction_log)]
       IN /\ e1.type = "RidePayment" /\ e2.type = "RidePayment"
          /\ e1.related_trip_id # e2.related_trip_id
          /\ e1.rider_id # e2.rider_id
          /\ active_trip[e1.related_trip_id].status = "AutoCompleted"
          /\ active_trip[e2.related_trip_id].status = "AutoCompleted"
          /\ active_trip[e1.related_trip_id].shuttle_id = active_trip[e2.related_trip_id].shuttle_id

----------------------------------------------------------------------------
(* C11: a tap in which a statement raises, before, between or after the    *)
(* balance update, the ledger insert, the status update and the trip       *)
(* insert, leaves every table as it was before the tap; the tap made       *)
(* again finds the store it would have found had the first not been made.  *)
C11_FailedTapKeepsStore ==
    \A username \in TapUsernames, cs \in Stops, sh \in Shuttles, k \in FailPoints :
        ~ ENABLED (process_rider_tap_failing(username, cs, sh, k) /\ ~ UNCHANGED db)

(* A tap has failed, and a tap can fail at its commit, the four writes of  *)
(* a forced settlement followed by a tap-on being done.                    *)
C11_Witness ==
    /\ out.msg = "Error"
    /\ \E username \in TapUsernames, cs \in Stops :
          ENABLED process_rider_tap_failing(username, cs, 1, 4)

(* The passes of the loop that raise, and those that do not, for the trips *)
(* ACTIVE on shuttle sh.                                                   *)
PassOutcomes(sh) == [OpenTripsOn(sh) -> 0..3]

(* The step has settled trip t among the trips of a loop whose passes end  *)
(* as fail says.                                                           *)
SettledDespiteFailures(t, fail) ==
    /\ active_trip'[t] = [active_trip[t] EXCEPT !.status = "AutoCompleted"]
    /\ Cardinality({i \in DOMAIN transaction_log' \ DOMAIN transaction_log :
                       transaction_log'[i].related_trip_id = t}) = 1
    /\ \E i \in DOMAIN transaction_log' \ DOMAIN transaction_log :
          transaction_log'[i] = RidePayment(RiderOf(t), ForcedFare(t), t)
    /\ user'[RiderOf(t)].wallet_balance =
          user[RiderOf(t)].wallet_balance
            - SumForcedFares({x \in DOMAIN fail : RiderOf(x) = RiderOf(t) /\ fail[x] >= 1})

(* C13: when the pass of one trip raises in handle_end_of_shift, every     *)
(* other trip ACTIVE on the shuttle is AUTO_COMPLETED, charged and         *)
(* ledgered in the committed state.                                        *)
C13_OtherTripsStillSettled ==
    [][\A sh \in Shuttles :
          \A fail \in PassOutcomes(sh) :
              handle_end_of_shift_failing(sh, fail)
                => \A t \in DOMAIN fail : fail[t] = 3 => SettledDespiteFailures(t, fail)]_vars

(* The last settlement was made by an end of shift, for a trip of a        *)
(* shuttle on which an older trip is still ACTIVE: the pass of the older   *)
(* trip raised.                                                            *)
C13_Witness ==
    /\ out.msg = "AutoCompleted"
    /\ transaction_log # << >>
    /\ LET e == transaction_log[Len(transaction_log)]
       IN /\ e.type = "RidePayment"
          /\ e.amount = -out.fare
          /\ active_trip[e.related_trip_id].status = "AutoCompleted"
          /\ \E t \in DOMAIN active_trip :
                /\ t < e.related_trip_id
                /\ active_trip[t].status = "Active"
                /\ active_trip[t].shuttle_id = active_trip[e.related_trip_id].shuttle_id

(* The step has kept nothing of the pass of trip t. *)
NothingOfPass(t, fail) ==
    /\ active_trip'[t] = active_trip[t]
    /\ \A i \in DOMAIN transaction_log' \ DOMAIN transaction_log :
          transaction_log'[i].related_trip_id # t
    /\ user'[RiderOf(t)].wallet_balance =
          user[RiderOf(t)].wallet_balance
            - SumForcedFares({x \in DOMAIN fail : RiderOf(x) = RiderOf(t) /\ fail[x] = 3})

(* C15: when the pass of a trip raises between its balance update, its     *)
(* ledger insert and its status update, none of the three is in the        *)
(* committed state: no debit without entry, no entry without the status    *)
(* AUTO_COMPLETED.                                                         *)
C15_PassIsAtomic ==
    [][\A sh \in Shuttles :
          \A fail \in PassOutcomes(sh) :
              handle_end_of_shift_failing(sh, fail)
                => \A t \in DOMAIN fail : fail[t] < 3 => NothingOfPass(t, fail)]_vars

----------------------------------------------------------------------------
(* C14: when no session is inside a handler, whatever taps and deposits    *)
(* for one rider have overlapped, the rider's balance is the balance the   *)
(* row began with plus the amounts of the ledger entries committed for it. *)
C14_NoLostUpdate ==
    (\A s \in Sessions : session[s] = Idle) => BalancesInStep

(* C16: the commit of a tap, whatever another session has committed since  *)
(* the tap read the rider's ACTIVE trip, leaves no rider with two trips     *)
(* whose status is ACTIVE.                                                 *)
C16_OneActiveTripUnderOverlap ==
    [][\A s \in Sessions :
          process_rider_tap_writes(s)
            => \A t1, t2 \in DOMAIN active_trip' :
                  (/\ active_trip'[t1].rider_id = active_trip'[t2].rider_id
                   /\ active_trip'[t1].status = "Active"
                   /\ active_trip'[t2].status = "Active") => t1 = t2]_vars

(* C17: a step changes the status of a trip only from ACTIVE, and only to  *)
(* COMPLETED or AUTO_COMPLETED; it appends no ledger entry for a trip that *)
(* is COMPLETED or AUTO_COMPLETED, an end of shift overlapping a tap-off   *)
(* of the same trip included.                                              *)
C17_ClosedTripsStayClosed ==
    [][\A t \in DOMAIN active_trip :
          /\ active_trip'[t].status # active_trip[t].status
                => /\ active_trip[t].status = "Active"
                   /\ active_trip'[t].status \in {"Completed", "AutoCompleted"}
          /\ active_trip[t].status # "Active"
                => \A i \in DOMAIN transaction_log' \ DOMAIN transaction_log :
                      transaction_log'[i].related_trip_id # t]_vars

(* C18: in every committed state a trip that is COMPLETED or               *)
(* AUTO_COMPLETED is named by exactly one RidePayment entry, an entry of   *)
(* the trip's rider, and a trip that is ACTIVE is named by none.           *)
C18_OnePaymentPerClosedTrip ==
    \A t \in DOMAIN active_trip :
        LET paid == {i \in DOMAIN transaction_log :
                        /\ transaction_log[i].type = "RidePayment"
                        /\ transaction_log[i].related_trip_id = t}
        IN IF active_trip[t].status = "Active"
           THEN paid = {}
           ELSE /\ Cardinality(paid) = 1
                /\ \A i \in paid : transaction_log[i].rider_id = active_trip[t].rider_id

----------------------------------------------------------------------------
(* The distances of route r do not decrease along its stop_order. *)
WellFormed(r) ==
    \A a, b \in DOMAIN route_stop :
        (/\ route_stop[a].route_id = r
         /\ route_stop[b].route_id = r
         /\ route_stop[a].stop_order <= route_stop[b].stop_order)
          => route_stop[a].distance_from_start <= route_stop[b].distance_from_start

(* C19: for an ACTIVE trip on a route whose distances do not decrease      *)
(* along stop_order, the fare a forced settlement charges, on a tap or at  *)
(* the end of a shift, is at least the fare a tap-off at any stop of that  *)
(* route charges for the same tap-on stop.                                 *)
C19_ForcedFareIsMaximal ==
    \A t \in OpenTrips, cs \in DOMAIN route_stop :
        LET r == TapOnStop(t).route_id
        IN (route_stop[cs].route_id = r /\ WellFormed(r))
             => LET last_stop_data == route_stop[LastStopData(r)]
                    fare == TapOffFare(route[r], TapOnStop(t), route_stop[cs])
                IN /\ MaxFareOnTap(route[r], TapOnStop(t), last_stop_data) >= fare
                   /\ MaxFareAtShiftEnd(route[r], TapOnStop(t), last_stop_data) >= fare

(* The ledger entry and the trip row that the pass of handle_end_of_shift  *)
(* for trip t commits in this state.                                       *)
ShiftEndSettlement(t) ==
    LET S == SettleTrip([out |-> out, user |-> user, transaction_log |-> transaction_log,
                         active_trip |-> active_trip], t)
    IN [entry |-> S.transaction_log[Len(S.transaction_log)], trip |-> S.active_trip[t]]

(* C20: a tap of the rider of an ACTIVE trip at a stop of another route    *)
(* commits for that trip what the end of the shift would commit in the     *)
(* same state: the RidePayment entry of the same amount naming the trip,   *)
(* and the status AUTO_COMPLETED.                                          *)
C20_TapSettlesAsShiftEnd ==
    \A t \in OpenTrips, cs \in Stops, sh \in Shuttles :
        TapOnStop(t).route_id # route_stop[cs].route_id
          => ~ ENABLED (/\ TapOfTrip(t, cs, sh)
                        /\ ~ (/\ Len(transaction_log') = Len(transaction_log) + 1
                              /\ transaction_log'[Len(transaction_log')] = ShiftEndSettlement(t).entry
                              /\ active_trip'[t] = ShiftEndSettlement(t).trip
                              /\ active_trip'[t].status = "AutoCompleted"))

----------------------------------------------------------------------------
(* The entries the step appends to the ledger for rider row rid. *)
NewEntriesOf(rid) ==
    {i \in DOMAIN transaction_log' \ DOMAIN transaction_log :
        transaction_log'[i].rider_id = rid}

(* C21: run one at a time, an operation that commits a change of a rider's *)
(* balance, a tap or an end of shift among them, appends exactly one       *)
(* ledger entry for that rider, of the amount of the change, and appends   *)
(* no entry for a rider whose balance it leaves alone: the balance less    *)
(* the sum of the rider's entries is what it was.                          *)
C21_BalanceMovesWithLedger ==
    [][\A rid \in DOMAIN user :
          LET change == user'[rid].wallet_balance - user[rid].wallet_balance
          IN /\ user'[rid].wallet_balance - SumAmounts(transaction_log', rid)
                  = user[rid].wallet_balance - SumAmounts(transaction_log, rid)
             /\ change # 0
                  => /\ Cardinality(NewEntriesOf(rid)) = 1
                     /\ \A i \in NewEntriesOf(rid) : transaction_log'[i].amount = change
             /\ change = 0 => NewEntriesOf(rid) = {}
             /\ \A i \in DOMAIN transaction_log : transaction_log'[i] = transaction_log[i]]_vars

(* C22: a tap under a username that no row of user has changes no table:  *)
(* no trip is inserted or updated, no balance moves, no entry is appended. *)
C22_UnknownRiderTapIsNoOp ==
    \A username \in TapUsernames, cs \in Stops, sh \in Shuttles :
        (\A i \in DOMAIN user : user[i].username # username)
          => ~ ENABLED (process_rider_tap(username, cs, sh) /\ ~ UNCHANGED db)

(* A rider rides, the ledger has an entry, and a tap under a username that *)
(* nobody has is made at a stop of another route than the open trip's.     *)
C22_Witness ==
    /\ OpenTrips # {}
    /\ transaction_log # << >>
    /\ \A i \in DOMAIN user : user[i].username # "nobody"
    /\ \E t \in OpenTrips, cs \in Stops :
          /\ TapOnStop(t).route_id # route_stop[cs].route_id
          /\ ENABLED (process_rider_tap("nobody", cs, 1) /\ UNCHANGED vars)

----------------------------------------------------------------------------
(* The fare a tap of the rider of trip t at stop cs settles the trip for:  *)
(* the tap-off fare on the trip's route, the forced fare on another.       *)
SettlementFare(t, cs) ==
    IF TapOnStop(t).route_id = route_stop[cs].route_id
    THEN ExpectedFare(route_stop[cs].route_id, route_stop[cs].distance_from_start,
                      TapOnStop(t).distance_from_start)
    ELSE ForcedFare(t)

(* The step closes trip t and debits its rider by fare. *)
ClosedAndDebited(t, fare) ==
    /\ active_trip'[t].status # "Active"
    /\ user'[RiderOf(t)].wallet_balance = user[RiderOf(t)].wallet_balance - fare

(* C23: no settlement looks at the balance.  A tap of the rider of an      *)
(* ACTIVE trip at another stop than the tap-on stop closes the trip and    *)
(* debits the whole fare, and so does the end of the shift of the trip's   *)
(* shuttle, whatever the balance is; the balance is at least the base_fare *)
(* of the route only when a trip is opened.                                *)
C23_SettlementIgnoresFunds ==
    /\ \A t \in OpenTrips, cs \in Stops, sh \in Shuttles :
          active_trip[t].tap_on_route_stop_id # cs
            => ~ ENABLED (TapOfTrip(t, cs, sh) /\ ~ ClosedAndDebited(t, SettlementFare(t, cs)))
    /\ \A t \in OpenTrips :
          ~ ENABLED (/\ handle_end_of_shift(active_trip[t].shuttle_id)
                     /\ ~ ClosedAndDebited(t, ForcedFare(t)))
    /\ \A rid \in DOMAIN user, cs \in Stops, sh \in Shuttles :
          ~ ENABLED (/\ TapOfRider(rid, cs, sh)
                     /\ OpensTrip(rid, cs, sh)
                     /\ user'[rid].wallet_balance < route[route_stop[cs].route_id].base_fare)

----------------------------------------------------------------------------
(* What a step that ends the shift of shuttle sh leaves alone. *)
ShiftEndFrame(sh) ==
    /\ DOMAIN active_trip' = DOMAIN active_trip
    /\ \A t \in DOMAIN active_trip \ OpenTripsOn(sh) : active_trip'[t] = active_trip[t]
    /\ DOMAIN user' = DOMAIN user
    /\ \A rid \in DOMAIN user :
          (\A t \in OpenTripsOn(sh) : RiderOf(t) # rid) => user'[rid] = user[rid]
    /\ \A i \in DOMAIN transaction_log : transaction_log'[i] = transaction_log[i]
    /\ UNCHANGED <<shuttle, route, route_stop>>
    /\ OpenTripsOn(sh) = {} => UNCHANGED db

(* C24: handle_end_of_shift(shuttle_id) leaves as they are the trips of    *)
(* other shuttles and the trips that are not ACTIVE, the balances of the   *)
(* riders without ACTIVE trip on that shuttle and the entries the ledger   *)
(* has; when the shuttle has no ACTIVE trip it changes no table.           *)
C24_ShiftEndFrame ==
    [][\A sh \in Shuttles : handle_end_of_shift(sh) => ShiftEndFrame(sh)]_vars

(* The shift of a shuttle has ended, its trip settled by the last entry,   *)
(* while an older trip on another shuttle is still ACTIVE.                 *)
C24_Witness ==
    /\ out.msg = "AutoCompleted"
    /\ transaction_log # << >>
    /\ LET e == transaction_log[Len(transaction_log)]
       IN /\ e.type = "RidePayment"
          /\ active_trip[e.related_trip_id].status = "AutoCompleted"
          /\ \E t \in DOMAIN active_trip :
                /\ t < e.related_trip_id
                /\ active_trip[t].status = "Active"
                /\ active_trip[t].shuttle_id # active_trip[e.related_trip_id].shuttle_id

----------------------------------------------------------------------------
(* The step is a tap-on of rider row rid at cs on sh, after the forced     *)
(* settlement of the rider's ACTIVE trip when there is one.                *)
OpensTripOfRider(rid, cs, sh) ==
    /\ OpensTrip(rid, cs, sh)
    /\ IF ActiveTripsOfRider(rid) = {}
       THEN /\ user' = user
            /\ transaction_log' = transaction_log
            /\ \A t \in DOMAIN active_trip : active_trip'[t] = active_trip[t]
       ELSE \E t \in ActiveTripsOfRider(rid) :
            /\ user' = [user EXCEPT ![rid].wallet_balance = @ - ForcedFare(t)]
            /\ transaction_log' = Append(transaction_log, RidePayment(rid, ForcedFare(t), t))
            /\ \A x \in DOMAIN active_trip :
                  active_trip'[x] = IF x = t THEN [active_trip[t] EXCEPT !.status = "AutoCompleted"]
                                    ELSE active_trip[x]

(* C25: what a tap does is the same on every shuttle.  A tap that opens no *)
(* trip is, with the same change of the tables, the tap on any other       *)
(* shuttle, so a trip is closed by a tap on a shuttle it was not opened    *)
(* on; a tap that opens a trip settles the rider's ACTIVE trip whatever    *)
(* shuttle that trip is on and records its own shuttle in the new row; no  *)
(* tap changes the shuttle_id of a trip row.  A step that changes nothing  *)
(* is set aside first: a tap that does something on one shuttle and        *)
(* nothing on another is found at the step of the first.                   *)
C25_TapIgnoresShuttle ==
    [][\/ UNCHANGED vars
       \/ \A username \in TapUsernames, cs \in Stops, sh1 \in Shuttles :
             process_rider_tap(username, cs, sh1)
               => /\ \A t \in DOMAIN active_trip :
                        active_trip'[t].shuttle_id = active_trip[t].shuttle_id
                  /\ Len(active_trip') = Len(active_trip)
                        => \A sh2 \in Shuttles : process_rider_tap(username, cs, sh2)
                  /\ Len(active_trip') # Len(active_trip)
                        => \E rid \in DOMAIN user :
                              /\ user[rid].username = username
                              /\ OpensTripOfRider(rid, cs, sh1)]_vars

(* A trip opened on one shuttle was settled by the tap that opened the     *)
(* rider's next trip on another shuttle.                                   *)
C25_Witness ==
    /\ out.msg = "ChargedMaxFare"
    /\ transaction_log # << >>
    /\ LET e == transaction_log[Len(transaction_log)]
       IN /\ e.type = "RidePayment"
          /\ active_trip[e.related_trip_id].status = "AutoCompleted"
          /\ \E t \in ActiveTripsOfRider(e.rider_id) :
                /\ t = Len(active_trip)
                /\ t > e.related_trip_id
                /\ active_trip[t].shuttle_id # active_trip[e.related_trip_id].shuttle_id

====
